---------------------------- MODULE Spec2Model ----------------------------
(***************************************************************************)
(* The turn-taking dialogue loops of main.py, sample2_with_llm.py,         *)
(* sample3_with_tool.py and sample4_multi_agent.py, and the echo responder *)
(* DialogueAgent.reply of sample1_basic_dialogue.py.                       *)
(*                                                                         *)
(* The coroutine main() is a sequential process; pc is its position.  Each *)
(* `await agent(...)` is split at its suspension point into a call step    *)
(* and a return step.  The framework's agents (UserAgent, ReActAgent) and  *)
(* the model server are the environment: a console line, a generated reply *)
(* or a raised error is chosen nondeterministically from small sets.       *)
(***************************************************************************)
EXTENDS Naturals, Sequences, FiniteSets

VARIABLES prog, pc, status, round, msg, assistant_response, user_msg,
          plan_msg, critique_msg, inflight, trace, stdout, exc, agent

vars == <<prog, pc, status, round, msg, assistant_response, user_msg,
          plan_msg, critique_msg, inflight, trace, stdout, exc, agent>>

(* ------------------------------ bounds --------------------------------- *)

\* number of loop rounds (console prompts) explored
MaxRounds == 3

\* number of calls of the echo responder explored
MaxCalls == 2

(* --------------------------- environment ------------------------------- *)

\* lines the operator may type at the console
ConsoleLines == {"exit", "Exit", " exit ", "", "Hi"}

\* texts the model server may generate
ModelReplies == {"exit", "ok"}

\* descriptions of errors a responder turn may raise
ErrorDescriptions == {"connection refused", "exit"}

(* ----------------------------- messages -------------------------------- *)

\* agentscope.message.Msg(name, content, role)
Msg(name, content, role) == [name |-> name, content |-> content, role |-> role]

\* Python's None, where a message is expected
None == [name |-> "", content |-> "", role |-> "None"]

\* the scripts that run a dialogue loop
TwoParty == {"main", "sample2", "sample3"}
Relay == {"sample4"}
Programs == TwoParty \cup Relay

\* name= arguments of the agents (the Japanese literals, transliterated)
UserName == "User"
AssistantName == "Assistant"
PlannerName == "Planner"
CriticName == "Critic"

\* UserAgent wraps the raw console line in a Msg with role "user"
UserMsg(line) == Msg(UserName, line, "user")

\* ReActAgent returns the generated text in a Msg with role "assistant"
AgentMsg(name, text) == Msg(name, text, "assistant")

(* ------------------------------ events --------------------------------- *)

Call(who, m) == [ev |-> "call", who |-> who, m |-> m]
Return(who, m) == [ev |-> "return", who |-> who, m |-> m]
Raised(who) == [ev |-> "raise", who |-> who, m |-> None]

Last(s) == s[Len(s)]

\* the responder awaited at each suspension point
Awaited ==
    CASE pc = "await_user" -> "user_agent"
      [] pc = "await_assistant" -> "assistant_agent"
      [] pc = "await_planner" -> "planner_agent"
      [] pc = "await_critic" -> "critic_agent"
      [] OTHER -> "nobody"

Suspended == pc \in {"await_user", "await_assistant", "await_planner", "await_critic"}

(* --------------------------- printed lines ----------------------------- *)

\* the literals of the print calls, translated; a line is the tuple of its
\* literal part and the values formatted into it
TerminationMessage == <<"Ending the dialogue.">>
InterruptMessage == <<"The program was interrupted.">>
ErrorMessage(e) == <<"An error occurred: ", e.desc>>

(* ----------------------------- exceptions ------------------------------ *)

NoException == [type |-> "None", desc |-> ""]
Exception(d) == [type |-> "Exception", desc |-> d]
KeyboardInterrupt == [type |-> "KeyboardInterrupt", desc |-> ""]

\* variant: every script, main.py too, also has an `except Exception` clause
HandlersCatchAll(p) == {"KeyboardInterrupt", "Exception"}

\* variant: no script has an `except KeyboardInterrupt` clause
HandlersErrorsOnly(p) == IF p = "main" THEN {} ELSE {"Exception"}

\* the exception types the `try` around asyncio.run(main()) catches
Handlers(p) ==
    CASE p = "main" -> {"KeyboardInterrupt"}
      [] p \in {"sample2", "sample3", "sample4"} -> {"KeyboardInterrupt", "Exception"}
      [] OTHER -> {}

\* status of the process after exception e left asyncio.run(main())
HandledStatus(p, e) ==
    IF e.type \notin Handlers(p) THEN "crashed"
    ELSE IF e.type = "KeyboardInterrupt" THEN "interrupted"
    ELSE "error_reported"

\* what the except clauses print for e
HandledOutput(p, e) ==
    IF e.type \notin Handlers(p) THEN <<>>
    ELSE IF e.type = "KeyboardInterrupt" THEN <<InterruptMessage>>
    ELSE <<ErrorMessage(e)>>

(* ------------------------- the dialogue loops -------------------------- *)

\* str.strip().lower() on the console lines considered
Normalised(c) ==
    CASE c = "Exit" -> "exit"
      [] c = " exit " -> "exit"
      [] OTHER -> c

\* variant: the test `msg.content.strip().lower() == "exit"`
IsExitLoose(m) == Normalised(m.content) = "exit"

\* the termination test `msg.content == "exit"`
IsExit(m) == m.content = "exit"

\* variant: every loop prompts with `user_agent()`, no message attached
UserArgNone == None

\* the message handed to user_agent at the top of the loop
UserArg == IF prog \in Relay THEN None ELSE msg

\* the message the termination test reads
Checked == IF prog \in Relay THEN user_msg ELSE msg

Init ==
    /\ prog \in Programs
    /\ pc = "loop"
    /\ status = "running"
    /\ round = 0
    /\ msg = None
    /\ assistant_response = None
    /\ user_msg = None
    /\ plan_msg = None
    /\ critique_msg = None
    /\ inflight = <<>>
    /\ trace = <<>>
    /\ stdout = <<>>
    /\ exc = NoException
    /\ agent = None

\* msg = await user_agent(msg)   /   user_msg = await user_agent()  -- the call
CallUser ==
    /\ status = "running" /\ pc = "loop"
    /\ round < MaxRounds
    /\ round' = round + 1
    /\ trace' = Append(trace, Call("user_agent", UserArg))
    /\ inflight' = Append(inflight, "user_agent")
    /\ pc' = "await_user"
    /\ UNCHANGED <<prog, status, msg, assistant_response, user_msg, plan_msg,
                   critique_msg, stdout, exc, agent>>

\* ... the console line arrives and is assigned
UserReturns ==
    /\ status = "running" /\ pc = "await_user"
    /\ \E line \in ConsoleLines :
        /\ trace' = Append(trace, Return("user_agent", UserMsg(line)))
        /\ IF prog \in Relay
             THEN user_msg' = UserMsg(line) /\ msg' = msg
             ELSE msg' = UserMsg(line) /\ user_msg' = user_msg
    /\ inflight' = SubSeq(inflight, 1, Len(inflight) - 1)
    /\ pc' = "check"
    /\ UNCHANGED <<prog, status, round, assistant_response, plan_msg,
                   critique_msg, stdout, exc, agent>>

\* variant: the test is missing, every console message goes to the responder
CheckExitLate ==
    /\ status = "running" /\ pc = "check"
    /\ pc' = IF prog \in Relay THEN "call_planner" ELSE "call_assistant"
    /\ UNCHANGED <<prog, status, round, msg, assistant_response, user_msg,
                   plan_msg, critique_msg, inflight, trace, stdout, exc, agent>>

\* if msg.content == "exit": print(...); break
CheckExit ==
    /\ status = "running" /\ pc = "check"
    /\ IF IsExit(Checked)
         THEN /\ stdout' = Append(stdout, TerminationMessage)
              /\ pc' = "done"
              /\ status' = "exited"
         ELSE /\ stdout' = stdout
              /\ pc' = IF prog \in Relay THEN "call_planner" ELSE "call_assistant"
              /\ status' = status
    /\ UNCHANGED <<prog, round, msg, assistant_response, user_msg, plan_msg,
                   critique_msg, inflight, trace, exc, agent>>

\* variant: the console line is stripped before it is handed on
AssistantArgStripped ==
    Msg(msg.name, IF msg.content = " exit " THEN "exit" ELSE msg.content, msg.role)

\* the message handed to assistant_agent
AssistantArg == msg

\* msg = await assistant_agent(msg)  /  assistant_response = await
\* assistant_agent(msg)  -- the call
CallAssistant ==
    /\ status = "running" /\ pc = "call_assistant"
    /\ trace' = Append(trace, Call("assistant_agent", AssistantArg))
    /\ inflight' = Append(inflight, "assistant_agent")
    /\ pc' = "await_assistant"
    /\ UNCHANGED <<prog, status, round, msg, assistant_response, user_msg,
                   plan_msg, critique_msg, stdout, exc, agent>>

\* variant: the termination test is run on the assistant's reply as well
AssistantReturnsThenCheck ==
    /\ status = "running" /\ pc = "await_assistant"
    /\ \E text \in ModelReplies :
        /\ trace' = Append(trace, Return("assistant_agent", AgentMsg(AssistantName, text)))
        /\ msg' = AgentMsg(AssistantName, text)
        /\ assistant_response' =
              IF prog = "main" THEN assistant_response
              ELSE AgentMsg(AssistantName, text)
    /\ inflight' = SubSeq(inflight, 1, Len(inflight) - 1)
    /\ pc' = "check"
    /\ UNCHANGED <<prog, status, round, user_msg, plan_msg, critique_msg,
                   stdout, exc, agent>>

\* ... the reply arrives; main.py assigns it to msg, sample2 and sample3 to
\* assistant_response and then to msg; back to the top of the loop
AssistantReturns ==
    /\ status = "running" /\ pc = "await_assistant"
    /\ \E text \in ModelReplies :
        /\ trace' = Append(trace, Return("assistant_agent", AgentMsg(AssistantName, text)))
        /\ msg' = AgentMsg(AssistantName, text)
        /\ assistant_response' =
              IF prog = "main" THEN assistant_response
              ELSE AgentMsg(AssistantName, text)
    /\ inflight' = SubSeq(inflight, 1, Len(inflight) - 1)
    /\ pc' = "loop"
    /\ UNCHANGED <<prog, status, round, user_msg, plan_msg, critique_msg,
                   stdout, exc, agent>>

\* the message handed to planner_agent
PlannerArg == user_msg

\* variant: the critic is handed the original task
CriticArgTask == user_msg

\* the message handed to critic_agent
CriticArg == plan_msg

\* print the request; plan_msg = await planner_agent(user_msg)  -- the call
CallPlanner ==
    /\ status = "running" /\ pc = "call_planner"
    /\ stdout' = stdout \o << <<"[User] request:", user_msg.content>>,
                              <<"[Planner] is drafting a plan...">> >>
    /\ trace' = Append(trace, Call("planner_agent", PlannerArg))
    /\ inflight' = Append(inflight, "planner_agent")
    /\ pc' = "await_planner"
    /\ UNCHANGED <<prog, status, round, msg, assistant_response, user_msg,
                   plan_msg, critique_msg, exc, agent>>

\* ... the plan arrives and is printed
PlannerReturns ==
    /\ status = "running" /\ pc = "await_planner"
    /\ \E text \in ModelReplies :
        /\ trace' = Append(trace, Return("planner_agent", AgentMsg(PlannerName, text)))
        /\ plan_msg' = AgentMsg(PlannerName, text)
        /\ stdout' = Append(stdout, <<"[Planner] plan:", text>>)
    /\ inflight' = SubSeq(inflight, 1, Len(inflight) - 1)
    /\ pc' = "call_critic"
    /\ UNCHANGED <<prog, status, round, msg, assistant_response, user_msg,
                   critique_msg, exc, agent>>

\* variant: the critic is started without awaiting the planner
CallCriticEarly ==
    /\ status = "running" /\ pc \in {"await_planner", "call_critic"}
    /\ stdout' = Append(stdout, <<"[Critic] is reviewing the plan...">>)
    /\ trace' = Append(trace, Call("critic_agent", CriticArg))
    /\ inflight' = Append(inflight, "critic_agent")
    /\ pc' = "await_critic"
    /\ UNCHANGED <<prog, status, round, msg, assistant_response, user_msg,
                   plan_msg, critique_msg, exc, agent>>

\* critique_msg = await critic_agent(plan_msg)  -- the call
CallCritic ==
    /\ status = "running" /\ pc = "call_critic"
    /\ stdout' = Append(stdout, <<"[Critic] is reviewing the plan...">>)
    /\ trace' = Append(trace, Call("critic_agent", CriticArg))
    /\ inflight' = Append(inflight, "critic_agent")
    /\ pc' = "await_critic"
    /\ UNCHANGED <<prog, status, round, msg, assistant_response, user_msg,
                   plan_msg, critique_msg, exc, agent>>

\* the lines printed as the final proposal of a round
FinalProposal(plan, critique) ==
    << <<"[Critic] improvements:", critique.content>>,
       <<"Final proposal">>,
       <<"[Plan]", plan.content>>,
       <<"[Improvements]", critique.content>>,
       <<"Enter the next task. ('exit' to end)">> >>

\* ... the critique arrives; plan and critique are printed; back to the top
CriticReturns ==
    /\ status = "running" /\ pc = "await_critic"
    /\ \E text \in ModelReplies :
        /\ trace' = Append(trace, Return("critic_agent", AgentMsg(CriticName, text)))
        /\ critique_msg' = AgentMsg(CriticName, text)
        /\ stdout' = stdout \o FinalProposal(plan_msg, AgentMsg(CriticName, text))
    /\ inflight' = SubSeq(inflight, 1, Len(inflight) - 1)
    /\ pc' = "loop"
    /\ UNCHANGED <<prog, status, round, msg, assistant_response, user_msg,
                   plan_msg, exc, agent>>

\* the awaited responder raises an error (model server failure, closed
\* stdin); it leaves main() and asyncio.run() and meets the except clauses
Raise ==
    /\ status = "running" /\ Suspended
    /\ \E d \in ErrorDescriptions :
        /\ exc' = Exception(d)
        /\ status' = HandledStatus(prog, Exception(d))
        /\ stdout' = stdout \o HandledOutput(prog, Exception(d))
    /\ trace' = Append(trace, Raised(Awaited))
    /\ inflight' = SubSeq(inflight, 1, Len(inflight) - 1)
    /\ pc' = "done"
    /\ UNCHANGED <<prog, round, msg, assistant_response, user_msg, plan_msg,
                   critique_msg, agent>>

\* the operator's interrupt signal arrives while the loop is suspended;
\* KeyboardInterrupt leaves asyncio.run() and meets the except clauses
Interrupt ==
    /\ status = "running" /\ Suspended
    /\ exc' = KeyboardInterrupt
    /\ status' = HandledStatus(prog, KeyboardInterrupt)
    /\ stdout' = stdout \o HandledOutput(prog, KeyboardInterrupt)
    /\ trace' = Append(trace, Raised(Awaited))
    /\ inflight' = SubSeq(inflight, 1, Len(inflight) - 1)
    /\ pc' = "done"
    /\ UNCHANGED <<prog, round, msg, assistant_response, user_msg, plan_msg,
                   critique_msg, agent>>

Next ==
    \/ CallUser
    \/ UserReturns
    \/ CheckExit
    \/ CallAssistant
    \/ AssistantReturns
    \/ CallPlanner
    \/ PlannerReturns
    \/ CallCritic
    \/ CriticReturns
    \/ Raise
    \/ Interrupt

Spec == Init /\ [][Next]_vars

(* -------------------------- the echo responder ------------------------- *)

\* DialogueAgent.__init__
DialogueAgent(name, response_text) == [name |-> name, response_text |-> response_text]

\* variant: the reply repeats the content it received
replyParrot(self, x) == Msg(self.name, x.content, "assistant")

\* DialogueAgent.reply: the message returned for input x
reply(self, x) == Msg(self.name, self.response_text, "assistant")

\* configurations and inputs the echo responder is tried on
EchoNames == {"Alice", "Bob"}
EchoTexts == {"Hello!", "exit", ""}
EchoInputs ==
    {Msg(n, c, r) : n \in {"System", "Alice"}, c \in {"Hi", "exit", ""},
                    r \in {"system", "user", "assistant"}}

InitReply ==
    /\ prog = "sample1"
    /\ pc = "reply"
    /\ status = "running"
    /\ round = 0
    /\ msg = None
    /\ assistant_response = None
    /\ user_msg = None
    /\ plan_msg = None
    /\ critique_msg = None
    /\ inflight = <<>>
    /\ trace = <<>>
    /\ stdout = <<>>
    /\ exc = NoException
    /\ \E n \in EchoNames, t \in EchoTexts : agent = DialogueAgent(n, t)

\* await agent(x): reply prints the received content and returns its message;
\* it has no suspension point of its own
Reply ==
    /\ pc = "reply"
    /\ round < MaxCalls
    /\ round' = round + 1
    /\ \E x \in EchoInputs :
        /\ stdout' = Append(stdout, <<agent.name, "received a message:", x.content>>)
        /\ trace' = trace \o <<Call(agent.name, x), Return(agent.name, reply(agent, x))>>
    /\ UNCHANGED <<prog, pc, status, msg, assistant_response, user_msg,
                   plan_msg, critique_msg, inflight, exc, agent>>

NextReply == Reply

SpecReply == InitReply /\ [][NextReply]_vars

(* ------------------------------ properties ----------------------------- *)

\* positions of the trace
Pos == 1..Len(trace)

IsReturnOf(i, who) == trace[i].ev = "return" /\ trace[i].who = who
IsCallOf(i, who) == trace[i].ev = "call" /\ trace[i].who = who

\* the responder that follows the console in the pipeline of the script
NextResponder == IF prog = "sample4" THEN "planner_agent" ELSE "assistant_agent"

ModelBacked == {"assistant_agent", "planner_agent", "critic_agent"}

\* C1: the loop halts normally exactly when the console message just
\* returned has content "exit": a normal exit is always preceded directly
\* by a console return with content exactly "exit"; a console return of
\* "exit" is the last event of the run and is followed only by the exit; the
\* variants "Exit" and " exit " leave the loop running, on its way to the
\* next responder.
C1_ExactMatchHalts ==
    /\ status = "exited" =>
          /\ Len(trace) > 0
          /\ IsReturnOf(Len(trace), "user_agent")
          /\ Last(trace).m.content = "exit"
    /\ \A i \in Pos :
          IsReturnOf(i, "user_agent") =>
             IF trace[i].m.content = "exit"
               THEN /\ i = Len(trace)
                    /\ \/ status = "running" /\ pc = "check"
                       \/ status = "exited" /\ pc = "done"
               ELSE i = Len(trace) =>
                       /\ status = "running"
                       /\ pc \in {"check", "call_assistant", "call_planner"}

\* "exit" is read in the third round, after both variants failed to halt
C1_Witness ==
    /\ status = "exited"
    /\ Len(trace) >= 10
    /\ \E i, j \in Pos :
          /\ IsReturnOf(i, "user_agent") /\ trace[i].m.content = "Exit"
          /\ IsReturnOf(j, "user_agent") /\ trace[j].m.content = " exit "

\* C2: from the state in which the console has just returned "exit", the
\* next step of the loop prints the termination message and terminates,
\* without any responder or console invocation (the trace of invocations is
\* unchanged and nothing is in flight); in particular with "exit" as the
\* first line no model-backed responder is ever invoked.
C2_ExitSkipsResponders ==
    [][ ( /\ status = "running"
          /\ Len(trace) > 0
          /\ IsReturnOf(Len(trace), "user_agent")
          /\ Last(trace).m.content = "exit" )
        => ( /\ trace' = trace
             /\ inflight' = <<>>
             /\ status' = "exited"
             /\ stdout' = Append(stdout, <<"Ending the dialogue.">>) ) ]_vars

\* "exit" was the very first line
C2_Witness ==
    /\ status = "exited"
    /\ Len(trace) = 2
    /\ stdout = << <<"Ending the dialogue.">> >>
    /\ \A i \in Pos : trace[i].who \notin ModelBacked

\* C3: in the relay loop every non-"exit" task T is followed by exactly the
\* turns planner(T) -> P, critic(P) -> C, user_agent() with no message, in
\* this order; planner and critic are invoked nowhere else; and when the
\* critique arrives the plan and the critique are on the console.
C3_RelayRound ==
    prog = "sample4" =>
      /\ \A i \in Pos :
            (IsReturnOf(i, "user_agent") /\ trace[i].m.content # "exit") =>
               /\ i + 1 \in Pos => trace[i + 1] = Call("planner_agent", trace[i].m)
               /\ (i + 2 \in Pos /\ trace[i + 2].ev = "return") =>
                     /\ trace[i + 2].who = "planner_agent"
                     /\ i + 3 \in Pos =>
                           /\ trace[i + 3] = Call("critic_agent", trace[i + 2].m)
                           /\ trace[i + 3].m # trace[i].m
               /\ (i + 4 \in Pos /\ trace[i + 4].ev = "return") =>
                     /\ trace[i + 4].who = "critic_agent"
                     /\ i + 5 \in Pos => trace[i + 5] = Call("user_agent", None)
      /\ \A j \in Pos :
            /\ IsCallOf(j, "planner_agent") =>
                  j > 1 /\ IsReturnOf(j - 1, "user_agent")
            /\ IsCallOf(j, "critic_agent") =>
                  j > 1 /\ IsReturnOf(j - 1, "planner_agent")
            /\ IsCallOf(j, "user_agent") => trace[j].m = None
      /\ (Len(trace) > 2 /\ IsReturnOf(Len(trace), "critic_agent")) =>
            /\ Len(stdout) >= 3
            /\ stdout[Len(stdout) - 2] = <<"[Plan]", trace[Len(trace) - 2].m.content>>
            /\ stdout[Len(stdout) - 1] = <<"[Improvements]", Last(trace).m.content>>

\* a full relay round was run and the console is prompted again
C3_Witness ==
    /\ prog = "sample4"
    /\ pc = "await_user"
    /\ Len(trace) = 7
    /\ trace[2].m.content = "Hi"
    /\ trace[4].m.content = "ok"
    /\ trace[6].m.content = "exit"

\* C4: in the two-party loops the first console invocation gets no message
\* (and the current message is none until then), and every later console
\* invocation gets exactly the reply the assistant returned just before.
C4_FeedbackToConsole ==
    prog \in {"main", "sample2", "sample3"} =>
      /\ trace = <<>> => msg = None
      /\ \A i \in Pos :
            IsCallOf(i, "user_agent") =>
               IF i = 1 THEN trace[i].m = None
               ELSE /\ IsReturnOf(i - 1, "assistant_agent")
                    /\ trace[i].m = trace[i - 1].m
                    /\ trace[i].m # None
                    /\ trace[i].m.role = "assistant"

\* the console is invoked a second time, with the assistant's reply
C4_Witness ==
    /\ prog = "sample2"
    /\ pc = "await_user"
    /\ Len(trace) = 5
    /\ trace[5].m.name = "Assistant"

\* the responders called since the last console invocation, in order
RECURSIVE RoundCalls(_)
RoundCalls(n) ==
    IF n = 0 THEN <<>>
    ELSE IF trace[n].ev # "call" THEN RoundCalls(n - 1)
    ELSE IF trace[n].who = "user_agent" THEN <<"user_agent">>
    ELSE Append(RoundCalls(n - 1), trace[n].who)

\* C5: at most one responder invocation is in flight, namely the awaited
\* one; every invocation but the first starts right after a return (the
\* earlier turn's result is available); and the invocations of a round are a
\* prefix of the pipeline, so none is started twice or out of order.
C5_OneInFlightInOrder ==
    /\ Len(inflight) <= 1
    /\ Len(inflight) = 1 => (status = "running" /\ Suspended /\ inflight[1] = Awaited)
    /\ \A i \in Pos : (trace[i].ev = "call" /\ i > 1) => trace[i - 1].ev = "return"
    /\ LET pipeline == IF prog = "sample4"
                         THEN <<"user_agent", "planner_agent", "critic_agent">>
                         ELSE <<"user_agent", "assistant_agent">>
           calls == RoundCalls(Len(trace))
       IN  /\ Len(calls) <= Len(pipeline)
           /\ calls = SubSeq(pipeline, 1, Len(calls))

\* the critic is in flight in the second round
C5_Witness ==
    /\ prog = "sample4"
    /\ pc = "await_critic"
    /\ inflight = <<"critic_agent">>
    /\ round = 2

\* C6: every message returned by the echo responder carries the configured
\* response text, the configured name and role "assistant", whatever the
\* input was; the configuration is the same after the call, so all returned
\* messages are equal in their fields.
C6_EchoFixedReply ==
    prog = "sample1" =>
      /\ \A i \in Pos :
            trace[i].ev = "return" =>
               /\ trace[i].m.content = agent.response_text
               /\ trace[i].m.name = agent.name
               /\ trace[i].m.role = "assistant"
      /\ \A i, j \in Pos :
            (trace[i].ev = "return" /\ trace[j].ev = "return") => trace[i].m = trace[j].m

\* two calls with different inputs, neither equal to the configured text
C6_Witness ==
    /\ prog = "sample1"
    /\ Len(trace) = 4
    /\ trace[1].m.content # trace[3].m.content
    /\ trace[1].m.content # agent.response_text
    /\ trace[3].m.content # agent.response_text
    /\ trace[2].m = trace[4].m

\* C7: a non-interrupt error raised by a responder turn is the last event
\* of the run (no retry, no further invocation, nothing left in flight); in
\* sample2, sample3 and sample4 it is reported with its description, in
\* main.py it is unhandled, nothing is printed for it and the process dies.
C7_ErrorEndsLoop ==
    /\ \A i \in Pos : trace[i].ev = "raise" => i = Len(trace)
    /\ (Len(trace) > 0 /\ Last(trace).ev = "raise" /\ exc.type = "Exception") =>
          /\ inflight = <<>>
          /\ pc = "done"
          /\ IF prog = "main"
               THEN /\ status = "crashed"
                    /\ \A k \in 1..Len(stdout) : stdout[k][1] # "An error occurred: "
               ELSE /\ status = "error_reported"
                    /\ Last(stdout) = <<"An error occurred: ", exc.desc>>
    /\ status \in {"error_reported", "crashed"} =>
          (Len(trace) > 0 /\ Last(trace).ev = "raise" /\ exc.type = "Exception")

\* the critic's turn fails in the second round of the relay loop
C7_Witness ==
    /\ prog = "sample4"
    /\ status = "error_reported"
    /\ round = 2
    /\ Last(trace) = Raised("critic_agent")
    /\ Last(stdout) = <<"An error occurred: ", "connection refused">>

\* C8: an interrupt can arrive at every suspension point; when it does it is
\* the last event of the run, nothing is left in flight, the interruption
\* message is the last line printed and the process is in its interrupted
\* end state, also in main.py.
C8_InterruptEndsLoop ==
    /\ (status = "running" /\ Suspended) => ENABLED Interrupt
    /\ (Len(trace) > 0 /\ Last(trace).ev = "raise" /\ exc.type = "KeyboardInterrupt") =>
          /\ status = "interrupted"
          /\ pc = "done"
          /\ inflight = <<>>
          /\ Last(stdout) = <<"The program was interrupted.">>
    /\ status = "interrupted" =>
          (Len(trace) > 0 /\ Last(trace).ev = "raise" /\ exc.type = "KeyboardInterrupt")

\* main.py is interrupted while the assistant is awaited
C8_Witness ==
    /\ prog = "main"
    /\ status = "interrupted"
    /\ Last(trace) = Raised("assistant_agent")

\* C9: every console message whose content is not "exit" is the argument,
\* field for field, of the next invocation, which is the next responder of
\* the pipeline; until that invocation the loop is running towards it.
C9_PassThrough ==
    \A i \in Pos :
       (IsReturnOf(i, "user_agent") /\ trace[i].m.content # "exit") =>
          /\ i < Len(trace) => trace[i + 1] = Call(NextResponder, trace[i].m)
          /\ i = Len(trace) =>
                /\ status = "running"
                /\ pc \in {"check", "call_assistant", "call_planner"}

\* the empty line and the padded line both reached the assistant unchanged
C9_Witness ==
    /\ prog = "main"
    /\ \E i, j \in Pos :
          /\ trace[i] = Call("assistant_agent", Msg("User", "", "user"))
          /\ trace[j] = Call("assistant_agent", Msg("User", " exit ", "user"))

\* C10: the termination test reads console messages only: when it runs the
\* tested message is the one the console just returned; a model-backed
\* responder's "exit" leaves the loop running; in the two-party loops that
\* reply becomes the argument of the next console invocation; and a normal
\* exit directly follows a console return.
C10_OnlyConsoleTerminates ==
    /\ pc = "check" =>
          /\ IsReturnOf(Len(trace), "user_agent")
          /\ (IF prog = "sample4" THEN user_msg ELSE msg) = Last(trace).m
          /\ Last(trace).m.role = "user"
    /\ \A i \in Pos :
          (trace[i].ev = "return" /\ trace[i].who \in ModelBacked
             /\ trace[i].m.content = "exit") =>
             /\ i = Len(trace) => (status = "running" /\ pc \in {"loop", "call_critic"})
             /\ (i < Len(trace) /\ prog # "sample4") =>
                   trace[i + 1] = Call("user_agent", trace[i].m)
    /\ status = "exited" => Last(trace).who = "user_agent"

\* the assistant answered "exit", the dialogue went on and ended later
C10_Witness ==
    /\ prog = "sample3"
    /\ status = "exited"
    /\ Len(trace) = 10
    /\ trace[4] = Return("assistant_agent", Msg("Assistant", "exit", "assistant"))

====
